---- MODULE Spec2Model ----
(***************************************************************************)
(* Poll service (server/internal/service/poll_service.go) over the poll    *)
(* repository (server/internal/repository/poll_repository.go) and the      *)
(* PostgreSQL schema (init script: tables polls, poll_options, votes, the   *)
(* unique_voter_per_poll constraint and the total_votes trigger).           *)
(*                                                                         *)
(* The committed database is the triple (polls, options, votes).  A         *)
(* database/sql transaction is a per-request buffer of row versions, tx,    *)
(* that becomes visible in one step at Commit and is discarded by the       *)
(* deferred Rollback.  Statements outside a transaction autocommit.  Row     *)
(* locks and the wait on an uncommitted unique-index entry are guards.      *)
(***************************************************************************)
EXTENDS Integers, Sequences, FiniteSets, TLC

\* ------------------------------------------------------------------ bounds
NumProcs  == 2   \* concurrent requests in flight
MaxOps    == 3   \* service calls started in one behaviour
MaxPolls  == 2   \* poll ids
MaxOpts   == 2   \* options of one request
NumVoters == 2   \* voter identifiers
MaxTime   == 1   \* clock values 0..MaxTime
MaxFaults == 1   \* storage calls that fail in one behaviour

Procs   == 1..NumProcs
PollIds == 1..MaxPolls
Voters  == 1..NumVoters
Times   == 0..MaxTime
NoExpiry == -1                       \* ExpiresAt == nil / expires_at IS NULL
OptIds  == PollIds \X (0..(MaxOpts - 1))   \* an option id: <<owning poll, position>>

\* ------------------------------------------------------- service messages
ErrPollNotFound   == "poll not found"
ErrPollNotActive  == "poll is not active"
ErrPollExpired    == "poll has expired"
ErrAlreadyVoted   == "you have already voted on this poll"
ErrInvalidOption  == "invalid option for this poll"
ErrGetPoll        == "failed to get poll"
ErrCheckVote      == "failed to check vote status"
ErrGetOptions     == "failed to get poll options"
ErrCastBegin      == "failed to cast vote: failed to begin transaction"
ErrCastInsert     == "failed to cast vote: failed to cast vote"
ErrCastUnique     == "failed to cast vote: failed to cast vote: unique_voter_per_poll"
ErrCastUpdate     == "failed to cast vote: failed to update vote count"
ErrCastCommit     == "failed to cast vote: commit"
ErrDelete         == "failed to delete poll"
ErrDeleteNotFound == "failed to delete poll: poll not found"
Ok   == "ok"
None == "none"

VARIABLES
  now,       \* time.Now() / NOW()
  polls,     \* committed rows of table polls, by id
  options,   \* committed rows of table poll_options: per poll, by position
  votes,     \* committed rows of table votes, in insertion order
  requested, \* history: len(req.Options) of the request that inserted the poll
  acked,     \* history: per option, the CastVote calls that returned success
  pc,        \* each request's position in its service call
  args,      \* each request's operation and arguments, while in flight
  tx,        \* each request's open transaction: its uncommitted row versions
  out,       \* each request's result so far, while in flight
  ret,       \* the service call that returned in the step just taken, if any,
             \* and the status its handler answered with
  nOps,      \* service calls started so far
  nFaults,   \* storage calls failed so far
  conn       \* database.NewConnection: its position, locals, handle and the global DB

vars == <<now, polls, options, votes, requested, acked, pc, args, tx, out, ret, nOps, nFaults,
          conn>>

NoRow   == [exists |-> FALSE, active |-> FALSE, expires |-> NoExpiry, total |-> 0, created |-> 0]
NoReq   == [question |-> 0, options |-> <<>>, expires |-> NoExpiry]
NoArgs  == [op |-> None, poll |-> 0, opt |-> <<0, 0>>, voter |-> 0, req |-> NoReq,
            limit |-> 0, offset |-> 0, activeOnly |-> FALSE]
\* limit and offset are the arguments ListPolls passed to the repository query.
NoOut   == [polls |-> <<>>, total |-> 0, id |-> 0, poll |-> NoRow, options |-> <<>>,
            percentages |-> <<>>, hasVoted |-> FALSE, votedOption |-> <<0, 0>>,
            limit |-> 0, offset |-> 0]
NoTx    == [vote |-> FALSE, total |-> -1, count |-> -1, poll |-> 0, row |-> NoRow, opts |-> <<>>]
NoRet   == [proc |-> 0, args |-> NoArgs, res |-> None, out |-> NoOut, status |-> 0]

\* database.NewConnection.  Durations are in seconds.
DefaultMaxRetries == 5
DefaultRetryDelay == 2

\* The call with configuration (MaxRetries r, RetryDelay d), before sql.Open.
\* pings counts db.Ping calls, delays lists the time.Sleep arguments, handle is
\* the *sql.DB ("none", "open", "closed"), DB the package variable (set or nil),
\* result what the call returned ("none" while it runs).
Connecting(r, d) ==
  [pc |-> "open", cfgRetries |-> r, cfgDelay |-> d, maxRetries |-> 0, retryDelay |-> 0,
   attempt |-> 0, pings |-> 0, delays |-> <<>>, handle |-> "none", DB |-> FALSE,
   result |-> "none"]

\* The connection the service runs on: the default configuration, first ping
\* successful.
Established ==
  [Connecting(0, 0) EXCEPT !.pc = "done", !.maxRetries = DefaultMaxRetries,
                           !.retryDelay = DefaultRetryDelay, !.attempt = 1, !.pings = 1,
                           !.handle = "open", !.DB = TRUE, !.result = "ok"]

Init ==
  /\ conn = Established
  /\ now = 0
  /\ polls = [k \in PollIds |-> NoRow]
  /\ options = [k \in PollIds |-> <<>>]
  /\ votes = <<>>
  /\ requested = [k \in PollIds |-> 0]
  /\ acked = [o \in OptIds |-> 0]
  /\ pc = [p \in Procs |-> "idle"]
  /\ args = [p \in Procs |-> NoArgs]
  /\ tx = [p \in Procs |-> NoTx]
  /\ out = [p \in Procs |-> NoOut]
  /\ ret = NoRet
  /\ nOps = 0
  /\ nFaults = 0

\* ----------------------------------------------------------------- helpers
\* A storage call may fail (connection lost, context cancelled, ...).
FaultChoices == IF nFaults < MaxFaults THEN {FALSE, TRUE} ELSE {FALSE}
CountFault(f) == nFaults' = IF f THEN nFaults + 1 ELSE nFaults

VoteRows(k) == {i \in 1..Len(votes) : votes[i].poll = k}
OptionVoteRows(o) == {i \in 1..Len(votes) : votes[i].opt = o}
VoterRows(k, v) == {i \in 1..Len(votes) : votes[i].poll = k /\ votes[i].voter = v}

OptionExists(o) == o[1] \in PollIds /\ o[2] + 1 <= Len(options[o[1]])

\* The HTTP status PollHandler answers with when the service call op returned
\* e: each handler has one response for every error of its service call.
StatusOK                  == 200
StatusCreated             == 201
StatusBadRequest          == 400
StatusNotFound            == 404
StatusInternalServerError == 500

HandlerStatus(op, e) ==
  IF e = Ok THEN (IF op = "CreatePoll" THEN StatusCreated ELSE StatusOK)
  ELSE IF op = "CreatePoll" THEN StatusBadRequest
  ELSE IF op = "GetPollResults" THEN StatusNotFound
  ELSE IF op = "CastVote" THEN StatusBadRequest
  ELSE StatusInternalServerError          \* ListPolls, DeletePoll

\* The call a of process self returns error e (or Ok) and value o; the deferred
\* Rollback drops what is left of its transaction.
Return(self, a, e, o) ==
  /\ pc' = [pc EXCEPT ![self] = "idle"]
  /\ args' = [args EXCEPT ![self] = NoArgs]
  /\ tx' = [tx EXCEPT ![self] = NoTx]
  /\ out' = [out EXCEPT ![self] = NoOut]
  /\ ret' = [proc |-> self, args |-> a, res |-> e, out |-> o,
             status |-> HandlerStatus(a.op, e)]
  /\ UNCHANGED conn

Finish(self, e) == Return(self, args[self], e, NoOut)

\* The call goes on to its next storage call.
Goto(self, l) ==
  /\ pc' = [pc EXCEPT ![self] = l]
  /\ ret' = NoRet
  /\ UNCHANGED conn

\* A call enters the service.
Enter(self) ==
  /\ pc[self] = "idle"
  /\ nOps < MaxOps
  /\ nOps' = nOps + 1

Store == <<polls, options, votes>>
History == <<requested, acked>>

\* ------------------------------------------------------- PollService.CastVote
\* The checks on the poll row GetPollByID returned, in the code's order.
\* (Variant: no expiry check.)
ExpiryUnchecked(row, t) == FALSE

PollExpired(row, t) == row.expires # NoExpiry /\ row.expires < t

\* (Variant: the expiry check placed before the active check.)
LifecycleErrorExpiryFirst(row, t) ==
  IF ~row.exists THEN ErrPollNotFound
  ELSE IF PollExpired(row, t) THEN ErrPollExpired
  ELSE IF ~row.active THEN ErrPollNotActive
  ELSE Ok

LifecycleError(row, t) ==
  IF ~row.exists THEN ErrPollNotFound
  ELSE IF ~row.active THEN ErrPollNotActive
  ELSE IF PollExpired(row, t) THEN ErrPollExpired
  ELSE Ok

\* Entry, repo.GetPollByID and the lifecycle checks.
CastVote(self, pollID, optionID, voterIdentifier) ==
  LET a == [NoArgs EXCEPT !.op = "CastVote", !.poll = pollID, !.opt = optionID,
                          !.voter = voterIdentifier]
  IN
  /\ Enter(self)
  /\ \E f \in FaultChoices :
       /\ CountFault(f)
       /\ IF f THEN Return(self, a, ErrGetPoll, NoOut)
          ELSE IF LifecycleError(polls[pollID], now) # Ok
               THEN Return(self, a, LifecycleError(polls[pollID], now), NoOut)
          ELSE /\ Goto(self, "cv_hasvoted")
               /\ args' = [args EXCEPT ![self] = a]
               /\ UNCHANGED <<tx, out>>
  /\ UNCHANGED <<now, Store, History>>

\* repo.HasVoted and the duplicate pre-check.
\* (Variant: a pre-check that never finds the voter's row.)
HasVotedBlind(pollID, voterIdentifier) == FALSE

RepoHasVoted(pollID, voterIdentifier) == VoterRows(pollID, voterIdentifier) # {}

CastVoteHasVoted(self) ==
  /\ pc[self] = "cv_hasvoted"
  /\ \E f \in FaultChoices :
       /\ CountFault(f)
       /\ IF f THEN Finish(self, ErrCheckVote)
          ELSE IF RepoHasVoted(args[self].poll, args[self].voter)
               THEN Finish(self, ErrAlreadyVoted)
          ELSE Goto(self, "cv_getoptions") /\ UNCHANGED <<args, tx, out>>
  /\ UNCHANGED <<now, Store, History, nOps>>

\* repo.GetPollOptions and the option-belongs-to-poll check.
\* (Variant: the query without WHERE poll_id = $1.)
OptionsOfAllPolls(pollID) == {o \in OptIds : OptionExists(o)}

RepoGetPollOptions(pollID) == {<<pollID, i - 1>> : i \in 1..Len(options[pollID])}

CastVoteGetOptions(self) ==
  /\ pc[self] = "cv_getoptions"
  /\ \E f \in FaultChoices :
       /\ CountFault(f)
       /\ IF f THEN Finish(self, ErrGetOptions)
          ELSE IF args[self].opt \notin RepoGetPollOptions(args[self].poll)
               THEN Finish(self, ErrInvalidOption)
          ELSE Goto(self, "rv_begin") /\ UNCHANGED <<args, tx, out>>
  /\ UNCHANGED <<now, Store, History, nOps>>

\* ----------------------------------------------------- PollRepository.CastVote
RepoCastVoteBegin(self) ==
  /\ pc[self] = "rv_begin"
  /\ \E f \in FaultChoices :
       /\ CountFault(f)
       /\ IF f THEN Finish(self, ErrCastBegin)
          ELSE Goto(self, "rv_insert") /\ UNCHANGED <<args, tx, out>>
  /\ UNCHANGED <<now, Store, History, nOps>>

\* unique_voter_per_poll: a committed row with the same (poll_id, voter_identifier)
\* rejects the insert; an uncommitted one makes the insert wait for its transaction.
\* (Variant: a votes table without the constraint.)
UniqueIndexMissing(pollID, voterIdentifier) == FALSE

UniqueViolation(pollID, voterIdentifier) == VoterRows(pollID, voterIdentifier) # {}

UniqueWait(self, pollID, voterIdentifier) ==
  \E q \in Procs \ {self} :
     tx[q].vote /\ args[q].poll = pollID /\ args[q].voter = voterIdentifier

\* UPDATE ... SET c = c + 1 takes the row's lock until the transaction ends and
\* reads the latest committed version: it waits while another transaction holds it.
\* (Variant: a counter read and written back without the lock, an absolute overwrite.)
NoRowLock(self, pollID) == FALSE

PollRowLocked(self, pollID) ==
  \E q \in Procs \ {self} : tx[q].total # -1 /\ args[q].poll = pollID

OptionRowLocked(self, optionID) ==
  \E q \in Procs \ {self} : tx[q].count # -1 /\ args[q].opt = optionID

\* trigger_update_poll_votes: AFTER INSERT ON votes, in the inserting transaction.
\* (Variant: a schema without the trigger.)
TriggerMissing(pollID) == polls[pollID].total

update_poll_total_votes(pollID) == polls[pollID].total + 1

\* INSERT INTO votes: the uncommitted vote row and the trigger's poll row version.
\* (Variant: the insert run on r.db instead of tx, so that it autocommits.)
InsertVoteAutocommit(self) ==
  /\ tx' = [tx EXCEPT ![self].vote = TRUE,
                      ![self].total = update_poll_total_votes(args[self].poll)]
  /\ votes' = Append(votes, [poll |-> args[self].poll, opt |-> args[self].opt,
                             voter |-> args[self].voter])
  /\ polls' = [polls EXCEPT ![args[self].poll].total = update_poll_total_votes(args[self].poll)]
  /\ UNCHANGED options

TxInsertVote(self) ==
  /\ tx' = [tx EXCEPT ![self].vote = TRUE,
                      ![self].total = update_poll_total_votes(args[self].poll)]
  /\ UNCHANGED Store

RepoCastVoteInsert(self) ==
  /\ pc[self] = "rv_insert"
  /\ \E f \in FaultChoices :
       /\ CountFault(f)
       /\ IF f THEN Finish(self, ErrCastInsert) /\ UNCHANGED Store
          ELSE IF UniqueViolation(args[self].poll, args[self].voter)
               THEN Finish(self, ErrCastUnique) /\ UNCHANGED Store
          ELSE /\ ~UniqueWait(self, args[self].poll, args[self].voter)
               /\ ~PollRowLocked(self, args[self].poll)
               /\ TxInsertVote(self)
               /\ Goto(self, "rv_update")
               /\ UNCHANGED <<args, out>>
  /\ UNCHANGED <<now, History, nOps>>

\* UPDATE poll_options SET vote_count = vote_count + 1 WHERE id = $1
TxUpdateVoteCount(self) ==
  IF OptionExists(args[self].opt)
  THEN tx' = [tx EXCEPT ![self].count = options[args[self].opt[1]][args[self].opt[2] + 1].count + 1]
  ELSE UNCHANGED tx

RepoCastVoteUpdate(self) ==
  /\ pc[self] = "rv_update"
  /\ \E f \in FaultChoices :
       /\ CountFault(f)
       /\ IF f THEN Finish(self, ErrCastUpdate)
          ELSE /\ ~OptionRowLocked(self, args[self].opt)
               /\ TxUpdateVoteCount(self)
               /\ Goto(self, "rv_commit")
               /\ UNCHANGED <<args, out>>
  /\ UNCHANGED <<now, Store, History, nOps>>

\* tx.Commit(): the vote row and both counters become visible together.
CommitVote(self) ==
  LET a == args[self] IN
  /\ votes' = Append(votes, [poll |-> a.poll, opt |-> a.opt, voter |-> a.voter])
  /\ polls' = [polls EXCEPT ![a.poll].total = tx[self].total]
  /\ options' = IF tx[self].count # -1
                THEN [options EXCEPT ![a.opt[1]][a.opt[2] + 1].count = tx[self].count]
                ELSE options

RepoCastVoteCommit(self) ==
  /\ pc[self] = "rv_commit"
  /\ \E f \in FaultChoices :
       /\ CountFault(f)
       /\ IF f THEN Finish(self, ErrCastCommit) /\ UNCHANGED <<Store, acked>>
          ELSE /\ CommitVote(self)
               /\ Finish(self, Ok)
               /\ acked' = [acked EXCEPT ![args[self].opt] = @ + 1]
  /\ UNCHANGED <<now, requested, nOps>>

\* ------------------------------------------------------ PollService.DeletePoll
\* UPDATE polls SET is_active = false WHERE id = $1 (autocommit, one statement).
\* (Variant: DELETE FROM polls WHERE id = $1.)
RepoHardDeletePoll(id) == [polls EXCEPT ![id] = NoRow]

RepoDeletePoll(id) == [polls EXCEPT ![id].active = FALSE]

\* (Variant: UPDATE ... WHERE id = $1 AND is_active = true.)
DeletePollActiveOnly(self, pollID) ==
  LET a == [NoArgs EXCEPT !.op = "DeletePoll", !.poll = pollID] IN
  /\ Enter(self)
  /\ \E f \in FaultChoices :
       /\ CountFault(f)
       /\ IF f THEN Return(self, a, ErrDelete, NoOut) /\ UNCHANGED polls
          ELSE IF ~(polls[pollID].exists /\ polls[pollID].active)
               THEN Return(self, a, ErrDeleteNotFound, NoOut) /\ UNCHANGED polls
          ELSE /\ ~PollRowLocked(self, pollID)
               /\ polls' = RepoDeletePoll(pollID)
               /\ Return(self, a, Ok, NoOut)
  /\ UNCHANGED <<now, options, votes, History>>

DeletePoll(self, pollID) ==
  LET a == [NoArgs EXCEPT !.op = "DeletePoll", !.poll = pollID] IN
  /\ Enter(self)
  /\ \E f \in FaultChoices :
       /\ CountFault(f)
       /\ IF f THEN Return(self, a, ErrDelete, NoOut) /\ UNCHANGED polls
          ELSE IF ~polls[pollID].exists
               THEN Return(self, a, ErrDeleteNotFound, NoOut) /\ UNCHANGED polls
          ELSE /\ ~PollRowLocked(self, pollID)
               /\ polls' = RepoDeletePoll(pollID)
               /\ Return(self, a, Ok, NoOut)
  /\ UNCHANGED <<now, options, votes, History>>

\* ------------------------------------------------------ PollService.CreatePoll
MinQuestionLen == 5
MaxQuestionLen == 500
MinOptions     == 2
MaxOptions     == 10
MinOptionLen   == 1
MaxOptionLen   == 200

ErrQuestionLen   == "question must be between 5 and 500 characters"
ErrTooFewOptions == "poll must have at least 2 options"
ErrTooManyOptions == "poll can have at most 10 options"
ErrOptionLen     == "option must be between 1 and 200 characters"
ErrExpiration    == "expiration date must be in the future"
ErrCreateBegin   == "failed to create poll: failed to begin transaction"
ErrCreatePoll    == "failed to create poll: failed to insert poll"
ErrCreateOption  == "failed to create poll: failed to insert option"
ErrCreateCommit  == "failed to create poll: commit"

\* (Variant: the expiration rule is missing.)
ValidateWithoutExpiry(req, t) ==
  IF req.question < MinQuestionLen \/ req.question > MaxQuestionLen THEN ErrQuestionLen
  ELSE IF Len(req.options) < MinOptions THEN ErrTooFewOptions
  ELSE IF Len(req.options) > MaxOptions THEN ErrTooManyOptions
  ELSE IF \E i \in 1..Len(req.options) :
             req.options[i] < MinOptionLen \/ req.options[i] > MaxOptionLen
       THEN ErrOptionLen
  ELSE Ok

\* (Variant: only the first option's length is checked.)
ValidateFirstOptionOnly(req, t) ==
  IF req.question < MinQuestionLen \/ req.question > MaxQuestionLen THEN ErrQuestionLen
  ELSE IF Len(req.options) < MinOptions THEN ErrTooFewOptions
  ELSE IF Len(req.options) > MaxOptions THEN ErrTooManyOptions
  ELSE IF req.options[1] < MinOptionLen \/ req.options[1] > MaxOptionLen THEN ErrOptionLen
  ELSE IF req.expires # NoExpiry /\ req.expires < t THEN ErrExpiration
  ELSE Ok

\* The validation of a request (a text is modelled by its length): the first rule
\* that fails, or Ok.
ValidateCreatePoll(req, t) ==
  IF req.question < MinQuestionLen \/ req.question > MaxQuestionLen THEN ErrQuestionLen
  ELSE IF Len(req.options) < MinOptions THEN ErrTooFewOptions
  ELSE IF Len(req.options) > MaxOptions THEN ErrTooManyOptions
  ELSE IF \E i \in 1..Len(req.options) :
             req.options[i] < MinOptionLen \/ req.options[i] > MaxOptionLen
       THEN ErrOptionLen
  ELSE IF req.expires # NoExpiry /\ req.expires < t THEN ErrExpiration
  ELSE Ok

\* Requests in flight or committed: a poll id is free for each one.
PollsInUse ==
  Cardinality({k \in PollIds : polls[k].exists})
    + Cardinality({q \in Procs : pc[q] \in {"rc_insertpoll", "rc_insertoption", "rc_commit"}})

\* uuid_generate_v4(): an id no committed row and no open transaction uses.
NewPollId ==
  CHOOSE k \in PollIds :
    /\ ~polls[k].exists /\ \A q \in Procs : tx[q].poll # k
    /\ \A j \in PollIds : (~polls[j].exists /\ \A q \in Procs : tx[q].poll # j) => k <= j

\* The requests drawn: texts are lengths.
QuestionLens == {MinQuestionLen - 1, MinQuestionLen}
OptionTexts  == {MinOptionLen}
OptionLists  == UNION {[1..n -> OptionTexts] : n \in 1..MaxOpts}
ExpiryChoices == {NoExpiry} \cup (0..(MaxTime - 1))
CreateRequests ==
  {[question |-> q, options |-> o, expires |-> e] :
     q \in QuestionLens, o \in OptionLists, e \in ExpiryChoices}

\* Entry, validation, and the repository's BeginTx.
CreatePoll(self, req) ==
  LET a == [NoArgs EXCEPT !.op = "CreatePoll", !.req = req] IN
  /\ Enter(self)
  /\ PollsInUse < MaxPolls
  /\ IF ValidateCreatePoll(req, now) # Ok
     THEN Return(self, a, ValidateCreatePoll(req, now), NoOut) /\ UNCHANGED nFaults
     ELSE \E f \in FaultChoices :
            /\ CountFault(f)
            /\ IF f THEN Return(self, a, ErrCreateBegin, NoOut)
               ELSE /\ Goto(self, "rc_insertpoll")
                    /\ args' = [args EXCEPT ![self] = a]
                    /\ tx' = [tx EXCEPT ![self].row.created = now]
                    /\ UNCHANGED out
  /\ UNCHANGED <<now, Store, History>>

\* INSERT INTO polls ... RETURNING id, created_at, total_votes
TxInsertPoll(self) ==
  /\ tx' = [tx EXCEPT ![self].poll = NewPollId,
                      ![self].row = [exists |-> TRUE, active |-> TRUE,
                                     expires |-> args[self].req.expires, total |-> 0,
                                     created |-> tx[self].row.created]]
  /\ requested' = [requested EXCEPT ![NewPollId] = Len(args[self].req.options)]
  /\ UNCHANGED Store

RepoCreatePollInsertPoll(self) ==
  /\ pc[self] = "rc_insertpoll"
  /\ \E f \in FaultChoices :
       /\ CountFault(f)
       /\ IF f THEN Finish(self, ErrCreatePoll) /\ UNCHANGED <<Store, requested>>
          ELSE TxInsertPoll(self) /\ Goto(self, "rc_insertoption") /\ UNCHANGED <<args, out>>
  /\ UNCHANGED <<now, acked, nOps>>

\* INSERT INTO poll_options ... for options[i], i = number of rows inserted so far.
\* (Variant: positions counted from 1.)
InsertOptionOneBased(self) ==
  LET i == Len(tx[self].opts) IN
  /\ tx' = [tx EXCEPT ![self].opts =
              Append(@, [text |-> args[self].req.options[i + 1], position |-> i + 1, count |-> 0])]
  /\ UNCHANGED Store

TxInsertOption(self) ==
  LET i == Len(tx[self].opts) IN
  /\ tx' = [tx EXCEPT ![self].opts =
              Append(@, [text |-> args[self].req.options[i + 1], position |-> i, count |-> 0])]
  /\ UNCHANGED Store

RepoCreatePollInsertOption(self) ==
  /\ pc[self] = "rc_insertoption"
  /\ \E f \in FaultChoices :
       /\ CountFault(f)
       /\ IF f THEN Finish(self, ErrCreateOption) /\ UNCHANGED Store
          ELSE /\ TxInsertOption(self)
               /\ Goto(self, IF Len(tx[self].opts) + 1 = Len(args[self].req.options)
                             THEN "rc_commit" ELSE "rc_insertoption")
               /\ UNCHANGED <<args, out>>
  /\ UNCHANGED <<now, History, nOps>>

\* tx.Commit(): the poll row and its option rows become visible together.
CommitPoll(self) ==
  /\ polls' = [polls EXCEPT ![tx[self].poll] = tx[self].row]
  /\ options' = [options EXCEPT ![tx[self].poll] = tx[self].opts]
  /\ UNCHANGED votes

RepoCreatePollCommit(self) ==
  /\ pc[self] = "rc_commit"
  /\ \E f \in FaultChoices :
       /\ CountFault(f)
       /\ IF f THEN Finish(self, ErrCreateCommit) /\ UNCHANGED Store
          ELSE /\ CommitPoll(self)
               /\ Return(self, args[self], Ok,
                         [NoOut EXCEPT !.id = tx[self].poll, !.poll = tx[self].row,
                                       !.options = tx[self].opts])
  /\ UNCHANGED <<now, History, nOps>>

\* -------------------------------------------------- PollService.GetPollResults
ErrGetResultsOptions == "failed to get options"

\* Entry and repo.GetPollByID.
GetPollResults(self, pollID, voterIdentifier) ==
  LET a == [NoArgs EXCEPT !.op = "GetPollResults", !.poll = pollID,
                          !.voter = voterIdentifier]
  IN
  /\ Enter(self)
  /\ \E f \in FaultChoices :
       /\ CountFault(f)
       /\ IF f THEN Return(self, a, ErrGetPoll, NoOut)
          ELSE IF ~polls[pollID].exists THEN Return(self, a, ErrPollNotFound, NoOut)
          ELSE /\ Goto(self, "gr_options")
               /\ args' = [args EXCEPT ![self] = a]
               /\ out' = [out EXCEPT ![self] = [NoOut EXCEPT !.id = pollID, !.poll = polls[pollID]]]
               /\ UNCHANGED tx
  /\ UNCHANGED <<now, Store, History>>

\* repo.GetPollOptions: the poll's option rows, ORDER BY position ASC.
GetPollResultsOptions(self) ==
  /\ pc[self] = "gr_options"
  /\ \E f \in FaultChoices :
       /\ CountFault(f)
       /\ IF f THEN Finish(self, ErrGetResultsOptions)
          ELSE /\ Goto(self, "gr_hasvoted")
               /\ out' = [out EXCEPT ![self].options = options[args[self].poll]]
               /\ UNCHANGED <<args, tx>>
  /\ UNCHANGED <<now, Store, History, nOps>>

\* repo.HasVoted (a failure is logged, not returned) and the result.
\* (Variant: the option_id query without AND voter_identifier = $2.)
VotedOptionOfAnyVoter(pollID, voterIdentifier) ==
  votes[CHOOSE i \in VoteRows(pollID) : \A j \in VoteRows(pollID) : i <= j].opt

VotedOption(pollID, voterIdentifier) ==
  votes[CHOOSE i \in VoterRows(pollID, voterIdentifier) :
          \A j \in VoterRows(pollID, voterIdentifier) : i <= j].opt

\* float64(opt.VoteCount) / float64(poll.TotalVotes) * 100, in fixed point: a
\* quotient keeps PctScale units per 1, as a float64 keeps 53 bits.
PctScale == 1000000

Percentage(voteCount, totalVotes) ==
  IF totalVotes > 0 THEN ((voteCount * PctScale) \div totalVotes) * 100 ELSE 0

Percentages(opts, totalVotes) ==
  [i \in 1..Len(opts) |-> Percentage(opts[i].count, totalVotes)]

\* (Variant: a failed lookup fails the call.)
GetPollResultsHasVotedStrict(self) ==
  /\ pc[self] = "gr_hasvoted"
  /\ \E f \in FaultChoices :
       /\ CountFault(f)
       /\ IF f THEN Finish(self, ErrCheckVote)
          ELSE Return(self, args[self], Ok,
                      [out[self] EXCEPT
                         !.total = out[self].poll.total,
                         !.percentages = Percentages(out[self].options, out[self].poll.total),
                         !.hasVoted = RepoHasVoted(args[self].poll, args[self].voter)])
  /\ UNCHANGED <<now, Store, History, nOps>>

GetPollResultsHasVoted(self) ==
  /\ pc[self] = "gr_hasvoted"
  /\ \E f \in FaultChoices :
       /\ CountFault(f)
       /\ LET results == [out[self] EXCEPT
                            !.total = out[self].poll.total,
                            !.percentages = Percentages(out[self].options, out[self].poll.total)]
          IN Return(self, args[self], Ok,
                    IF ~f /\ RepoHasVoted(args[self].poll, args[self].voter)
                    THEN [results EXCEPT
                            !.hasVoted = TRUE,
                            !.votedOption = VotedOption(args[self].poll, args[self].voter)]
                    ELSE results)
  /\ UNCHANGED <<now, Store, History, nOps>>

\* ------------------------------------------------------- PollService.ListPolls
DefaultLimit == 20
MaxLimit     == 100
ErrListPolls == "failed to list polls"

\* (Variant: only a negative limit is replaced.)
ClampLimitNegative(limit) == IF limit < 0 \/ limit > MaxLimit THEN DefaultLimit ELSE limit

ClampLimit(limit) == IF limit <= 0 \/ limit > MaxLimit THEN DefaultLimit ELSE limit
ClampOffset(offset) == IF offset < 0 THEN 0 ELSE offset

\* (Variant: the filter without the expiry test.)
ActiveFilterNoExpiry(k, activeOnly) ==
  /\ polls[k].exists
  /\ ~activeOnly \/ polls[k].active

\* WHERE ($1 = false OR (is_active = true AND (expires_at IS NULL OR expires_at > NOW())))
ActiveFilter(k, activeOnly) ==
  /\ polls[k].exists
  /\ ~activeOnly \/ (polls[k].active /\ (polls[k].expires = NoExpiry \/ polls[k].expires > now))

\* polls p LEFT JOIN poll_options po: one row per option, <<poll, index>>, and one
\* row <<poll, 0>> (NULL option columns) for a poll without options.
JoinRows(activeOnly) ==
  UNION {IF options[k] = <<>> THEN {<<k, 0>>} ELSE {<<k, i>> : i \in 1..Len(options[k])}
           : k \in {j \in PollIds : ActiveFilter(j, activeOnly)}}

JoinPosition(r) == IF r[2] = 0 THEN MaxOptions ELSE options[r[1]][r[2]].position

\* ORDER BY p.created_at DESC, po.position ASC
JoinBefore(r, s) ==
  \/ polls[r[1]].created > polls[s[1]].created
  \/ polls[r[1]].created = polls[s[1]].created /\ JoinPosition(r) <= JoinPosition(s)

\* Every order of the rows the ORDER BY allows (rows with equal keys in any order).
RECURSIVE OrderedRows(_)
OrderedRows(S) ==
  IF S = {} THEN {<<>>}
  ELSE UNION {{<<r>> \o t : t \in OrderedRows(S \ {r})} :
                r \in {x \in S : \A y \in S : JoinBefore(x, y)}}

\* LIMIT $2 OFFSET $3
LimitOffset(rows, limit, offset) ==
  SubSeq(rows, offset + 1, IF offset + limit < Len(rows) THEN offset + limit ELSE Len(rows))

\* The scan loop: polls in order of first appearance, each with its scanned options.
RECURSIVE GroupRows(_, _)
GroupRows(rows, acc) ==
  IF rows = <<>> THEN acc
  ELSE LET r == Head(rows)
           o == IF r[2] = 0 THEN <<>> ELSE <<options[r[1]][r[2]]>>
           at == {i \in 1..Len(acc) : acc[i].id = r[1]}
       IN IF at = {}
          THEN GroupRows(Tail(rows), Append(acc, [id |-> r[1], row |-> polls[r[1]], options |-> o]))
          ELSE LET i == CHOOSE j \in at : TRUE
               IN GroupRows(Tail(rows), [acc EXCEPT ![i].options = @ \o o])

ListPollsWithOptions(limit, offset, activeOnly) ==
  {GroupRows(LimitOffset(rows, limit, offset), <<>>) : rows \in OrderedRows(JoinRows(activeOnly))}

\* SELECT COUNT(*) FROM polls WHERE ...
GetTotalPollsCount(activeOnly) == Cardinality({k \in PollIds : ActiveFilter(k, activeOnly)})

ListLimits  == {1, MaxOpts + 1}
ListOffsets == {0}

\* Entry, the clamps and repo.ListPollsWithOptions.
ListPolls(self, limit, offset, activeOnly) ==
  LET a == [NoArgs EXCEPT !.op = "ListPolls", !.limit = limit, !.offset = offset,
                          !.activeOnly = activeOnly]
  IN
  /\ Enter(self)
  /\ \E f \in FaultChoices :
       /\ CountFault(f)
       /\ IF f THEN Return(self, a, ErrListPolls, NoOut)
          ELSE /\ \E page \in ListPollsWithOptions(ClampLimit(limit), ClampOffset(offset), activeOnly) :
                    out' = [out EXCEPT ![self] =
                              [NoOut EXCEPT !.polls = page,
                                            !.limit = ClampLimit(limit),
                                            !.offset = ClampOffset(offset)]]
               /\ Goto(self, "lp_count")
               /\ args' = [args EXCEPT ![self] = a]
               /\ UNCHANGED tx
  /\ UNCHANGED <<now, Store, History>>

\* (Variant: a failed count fails the call.)
ListPollsCountStrict(self) ==
  /\ pc[self] = "lp_count"
  /\ \E f \in FaultChoices :
       /\ CountFault(f)
       /\ IF f THEN Finish(self, ErrListPolls)
          ELSE Return(self, args[self], Ok,
                      [out[self] EXCEPT !.total = GetTotalPollsCount(args[self].activeOnly)])
  /\ UNCHANGED <<now, Store, History, nOps>>

\* repo.GetTotalPollsCount: a failure is logged and the total is 0.
ListPollsCount(self) ==
  /\ pc[self] = "lp_count"
  /\ \E f \in FaultChoices :
       /\ CountFault(f)
       /\ Return(self, args[self], Ok,
                 [out[self] EXCEPT !.total =
                    IF f THEN 0 ELSE GetTotalPollsCount(args[self].activeOnly)])
  /\ UNCHANGED <<now, Store, History, nOps>>

\* ------------------------------------------------------------------- clock
Tick ==
  /\ now < MaxTime
  /\ now' = now + 1
  /\ ret' = NoRet
  /\ UNCHANGED <<Store, History, pc, args, tx, out, nOps, nFaults, conn>>

\* ------------------------------------------------------------- specification
Step(self) ==
  \/ \E k \in PollIds, o \in OptIds, v \in Voters : CastVote(self, k, o, v)
  \/ CastVoteHasVoted(self)
  \/ CastVoteGetOptions(self)
  \/ RepoCastVoteBegin(self)
  \/ RepoCastVoteInsert(self)
  \/ RepoCastVoteUpdate(self)
  \/ RepoCastVoteCommit(self)
  \/ \E k \in PollIds : DeletePoll(self, k)
  \/ \E req \in CreateRequests : CreatePoll(self, req)
  \/ RepoCreatePollInsertPoll(self)
  \/ RepoCreatePollInsertOption(self)
  \/ RepoCreatePollCommit(self)
  \/ \E k \in PollIds, v \in Voters : GetPollResults(self, k, v)
  \/ GetPollResultsOptions(self)
  \/ GetPollResultsHasVoted(self)
  \/ \E l \in ListLimits, o \in ListOffsets, a \in BOOLEAN : ListPolls(self, l, o, a)
  \/ ListPollsCount(self)

Next == Tick \/ \E self \in Procs : Step(self)

Spec == Init /\ [][Next]_vars

\* Sequential histories: a call starts only when no other call is in flight.
Alone(self) == \A q \in Procs \ {self} : pc[q] = "idle"

NextSeq == Tick \/ \E self \in Procs : Alone(self) /\ Step(self)

SpecSeq == Init /\ [][NextSeq]_vars

\* Requests at the limits of the validation rules, one client at a time.  The
\* i-th option text has length i, but for the last one in some lists; an expiry
\* comes with the shortest questions and option lists.
BoundaryQuestionLens == {MinQuestionLen - 1, MinQuestionLen, MaxQuestionLen, MaxQuestionLen + 1}
BoundaryOptionCounts == {MinOptions - 1, MinOptions, MaxOptions, MaxOptions + 1}
BoundaryOptionLens   == {MinOptionLen - 1, MaxOptionLen, MaxOptionLen + 1}
OptionList(n, j, t)  == [i \in 1..n |-> IF i = j THEN t ELSE i]
BoundaryOptionLists ==
  {OptionList(n, 0, 0) : n \in BoundaryOptionCounts}
    \cup {OptionList(n, n, t) : n \in BoundaryOptionCounts, t \in BoundaryOptionLens}
BoundaryRequests ==
  {[question |-> q, options |-> o, expires |-> NoExpiry] :
     q \in BoundaryQuestionLens, o \in BoundaryOptionLists}
    \cup {[question |-> q, options |-> OptionList(n, 0, 0), expires |-> e] :
            q \in {MinQuestionLen - 1, MinQuestionLen},
            n \in {MinOptions - 1, MinOptions}, e \in Times}

StepCreate(self) ==
  \/ \E req \in BoundaryRequests : CreatePoll(self, req)
  \/ RepoCreatePollInsertPoll(self)
  \/ RepoCreatePollInsertOption(self)
  \/ RepoCreatePollCommit(self)

NextCreate == Tick \/ \E self \in {1} : StepCreate(self)

SpecCreate == Init /\ [][NextCreate]_vars

\* ------------------------------------------------- database.NewConnection
MaxRetriesCfg == 3   \* configured MaxRetries: -1..MaxRetriesCfg
MaxDelayCfg   == 2   \* configured RetryDelay: 0..MaxDelayCfg

Service == <<now, polls, options, votes, requested, acked, pc, args, tx, out, ret, nOps, nFaults>>

\* backoffDelay := retryDelay * time.Duration(attempt)
BackoffDelay(retryDelay, attempt) == retryDelay * attempt

\* The defaults and sql.Open; the loop starts with attempt = 1.
ConnOpen ==
  /\ conn.pc = "open"
  /\ LET c == [conn EXCEPT
                 !.maxRetries = IF conn.cfgRetries = 0 THEN DefaultMaxRetries ELSE conn.cfgRetries,
                 !.retryDelay = IF conn.cfgDelay = 0 THEN DefaultRetryDelay ELSE conn.cfgDelay]
     IN \E f \in BOOLEAN :
          conn' = IF f THEN [c EXCEPT !.pc = "done", !.result = "error"]
                  ELSE [c EXCEPT !.pc = "loop", !.handle = "open", !.attempt = 1]
  /\ UNCHANGED Service

\* for attempt := 1; attempt <= maxRetries; attempt++: the test, and the
\* statements after the loop.
ConnLoop ==
  /\ conn.pc = "loop"
  /\ conn' = IF conn.attempt <= conn.maxRetries
             THEN [conn EXCEPT !.pc = "ping"]
             ELSE [conn EXCEPT !.pc = "done", !.handle = "closed", !.result = "error"]
  /\ UNCHANGED Service

\* (Variant: a successful ping is confirmed by another ping.)
ConnPingTwice ==
  /\ conn.pc = "ping"
  /\ \E ok \in BOOLEAN :
       conn' = IF ok
               THEN [conn EXCEPT !.pings = @ + 2, !.pc = "done", !.DB = TRUE, !.result = "ok"]
               ELSE IF conn.attempt = conn.maxRetries
               THEN [conn EXCEPT !.pings = @ + 1, !.pc = "done", !.handle = "closed",
                                 !.result = "error"]
               ELSE [conn EXCEPT !.pings = @ + 1, !.pc = "sleep"]
  /\ UNCHANGED Service

\* db.Ping and what follows it in the loop body, up to time.Sleep.
ConnPing ==
  /\ conn.pc = "ping"
  /\ \E ok \in BOOLEAN :
       conn' = IF ok
               THEN [conn EXCEPT !.pings = @ + 1, !.pc = "done", !.DB = TRUE, !.result = "ok"]
               ELSE IF conn.attempt = conn.maxRetries
               THEN [conn EXCEPT !.pings = @ + 1, !.pc = "done", !.handle = "closed",
                                 !.result = "error"]
               ELSE [conn EXCEPT !.pings = @ + 1, !.pc = "sleep"]
  /\ UNCHANGED Service

\* time.Sleep(backoffDelay) and attempt++.
ConnSleep ==
  /\ conn.pc = "sleep"
  /\ conn' = [conn EXCEPT !.delays = Append(@, BackoffDelay(conn.retryDelay, conn.attempt)),
                          !.attempt = @ + 1, !.pc = "loop"]
  /\ UNCHANGED Service

InitConn ==
  /\ \E r \in -1..MaxRetriesCfg, d \in 0..MaxDelayCfg : conn = Connecting(r, d)
  /\ now = 0
  /\ polls = [k \in PollIds |-> NoRow]
  /\ options = [k \in PollIds |-> <<>>]
  /\ votes = <<>>
  /\ requested = [k \in PollIds |-> 0]
  /\ acked = [o \in OptIds |-> 0]
  /\ pc = [p \in Procs |-> "idle"]
  /\ args = [p \in Procs |-> NoArgs]
  /\ tx = [p \in Procs |-> NoTx]
  /\ out = [p \in Procs |-> NoOut]
  /\ ret = NoRet
  /\ nOps = 0
  /\ nFaults = 0

NextConn == ConnOpen \/ ConnLoop \/ ConnPing \/ ConnSleep

SpecConn == InitConn /\ [][NextConn]_vars

\* The call is the only thread: it takes its next step as long as it has one.
FairSpecConn == SpecConn /\ WF_vars(NextConn)

\* ---------------------------------------------------------- listing of polls
\* Polls are created, soft-deleted and listed, with page sizes and offsets at
\* and beyond the limits of ListPolls.
WideLimits  == {0, 1, MaxOpts + 1, MaxLimit, MaxLimit + 1}
WideOffsets == {-1, 0, 1}

StepList(self) ==
  \/ \E req \in CreateRequests : CreatePoll(self, req)
  \/ RepoCreatePollInsertPoll(self)
  \/ RepoCreatePollInsertOption(self)
  \/ RepoCreatePollCommit(self)
  \/ \E k \in PollIds : DeletePoll(self, k)
  \/ \E l \in WideLimits, o \in WideOffsets, a \in BOOLEAN : ListPolls(self, l, o, a)
  \/ ListPollsCount(self)

NextList == Tick \/ \E self \in Procs : StepList(self)

SpecList == Init /\ [][NextList]_vars

\* Voting on and reading a poll that exists: the store after one CreatePoll of a
\* request with MaxOpts options has committed.
CreatedRow(e) == [exists |-> TRUE, active |-> TRUE, expires |-> e, total |-> 0, created |-> 0]
CreatedOptions == [i \in 1..MaxOpts |-> [text |-> MinOptionLen, position |-> i - 1, count |-> 0]]

\* Expiry of the poll created before: none, now (which CreatePoll accepts), later.
CreatedExpiries == {NoExpiry} \cup Times

InitCreated ==
  /\ conn = Established
  /\ now = 0
  /\ \E e \in CreatedExpiries : polls = [k \in PollIds |-> IF k = 1 THEN CreatedRow(e) ELSE NoRow]
  /\ options = [k \in PollIds |-> IF k = 1 THEN CreatedOptions ELSE <<>>]
  /\ votes = <<>>
  /\ requested = [k \in PollIds |-> IF k = 1 THEN MaxOpts ELSE 0]
  /\ acked = [o \in OptIds |-> 0]
  /\ pc = [p \in Procs |-> "idle"]
  /\ args = [p \in Procs |-> NoArgs]
  /\ tx = [p \in Procs |-> NoTx]
  /\ out = [p \in Procs |-> NoOut]
  /\ ret = NoRet
  /\ nOps = 0
  /\ nFaults = 0

StepResults(self) ==
  \/ \E k \in PollIds, o \in OptIds, v \in Voters : CastVote(self, k, o, v)
  \/ CastVoteHasVoted(self)
  \/ CastVoteGetOptions(self)
  \/ RepoCastVoteBegin(self)
  \/ RepoCastVoteInsert(self)
  \/ RepoCastVoteUpdate(self)
  \/ RepoCastVoteCommit(self)
  \/ \E k \in PollIds : DeletePoll(self, k)
  \/ \E k \in PollIds, v \in Voters : GetPollResults(self, k, v)
  \/ GetPollResultsOptions(self)
  \/ GetPollResultsHasVoted(self)

NextResults == Tick \/ \E self \in Procs : StepResults(self)

SpecResults == InitCreated /\ [][NextResults]_vars

\* ------------------------------------------------------------ observations
\* What the properties below speak about: the counters, and a poll's state.
Totals == [k \in PollIds |-> polls[k].total]
Counts == [k \in PollIds |-> [i \in 1..Len(options[k]) |-> options[k][i].count]]

IsOpen(k, t) ==
  /\ polls[k].exists
  /\ polls[k].active
  /\ polls[k].expires = NoExpiry \/ polls[k].expires >= t

IsOptionOf(o, k) == o[1] = k /\ o[2] + 1 <= Len(options[k])

Voted(k, v) == \E i \in 1..Len(votes) : votes[i].poll = k /\ votes[i].voter = v

\* A CastVote call returns in this step, and no storage call of it has failed.
CastVoteReturns == ret'.args.op = "CastVote" /\ nFaults' = nFaults

\* The returning call found its poll open when it was issued: it is past the
\* lifecycle checks, or it is at them and the poll is open.
IssuedOnOpenPoll == pc[ret'.proc] # "idle" \/ IsOpen(ret'.args.poll, now)

\* The step adds one vote for option o to both counters and changes no other.
OneIncrement(o) ==
  /\ Totals' = [Totals EXCEPT ![o[1]] = @ + 1]
  /\ Counts' = [Counts EXCEPT ![o[1]][o[2] + 1] = @ + 1]

NoEffect == votes' = votes /\ Totals' = Totals /\ Counts' = Counts

\* ---------------------------------------------------------------------- C1
\* C1: in a sequential history, the first CastVote(p, o, v) issued on an open
\* poll p with a valid option o succeeds and raises o's vote_count and p's
\* total_votes by exactly 1; every later CastVote(p, o', v), whatever o' is,
\* fails and changes no counter, and on the open poll its error is the
\* duplicate-vote error.
SequentialVoteOnce ==
  [][CastVoteReturns =>
       LET a == ret'.args IN
       IF Voted(a.poll, a.voter)
       THEN /\ ret'.res # Ok
            /\ NoEffect
            /\ IssuedOnOpenPoll => ret'.res = ErrAlreadyVoted
       ELSE (IssuedOnOpenPoll /\ IsOptionOf(a.opt, a.poll)) =>
               /\ ret'.res = Ok
               /\ OneIncrement(a.opt)
               /\ votes' = Append(votes, [poll |-> a.poll, opt |-> a.opt, voter |-> a.voter])
    ]_vars

\* A later call, for another option than the one voted for, was turned away.
SecondVoteRejected ==
  /\ ret.res = ErrAlreadyVoted
  /\ \E i \in 1..Len(votes) :
       /\ votes[i].poll = ret.args.poll
       /\ votes[i].voter = ret.args.voter
       /\ votes[i].opt # ret.args.opt
       /\ polls[ret.args.poll].total = 1

\* ---------------------------------------------------------------------- C2
\* C2: whatever the interleaving of CastVote calls for the same (poll, voter),
\* the store never holds more than one vote row for the pair, and the poll's
\* and each option's counter show exactly one increment per voter who voted.
OneVotePerVoter ==
  \A k \in PollIds :
    /\ \A v \in Voters : Cardinality(VoterRows(k, v)) <= 1
    /\ polls[k].total = Cardinality({v \in Voters : Voted(k, v)})
    /\ \A i \in 1..Len(options[k]) :
         options[k][i].count =
           Cardinality({v \in Voters : \E j \in VoterRows(k, v) : votes[j].opt = <<k, i - 1>>})

\* Of two calls that both passed the pre-check, one committed and the other's
\* insert was rejected.
RaceLoserRejected ==
  /\ ret.res = ErrCastUnique
  /\ Cardinality(VoterRows(ret.args.poll, ret.args.voter)) = 1
  /\ polls[ret.args.poll].total = 1

\* ---------------------------------------------------------------------- C3
\* C3: a CastVote that passed the pre-check and whose insert the uniqueness
\* constraint rejects returns the duplicate-vote error of the pre-check.
UniqueViolationIsDuplicateVote ==
  [][\A p \in Procs :
       (pc[p] = "rv_insert" /\ ret'.proc = p /\ nFaults' = nFaults)
          => ret'.res = ErrAlreadyVoted]_vars

\* ---------------------------------------------------------------------- C4
RECURSIVE SumCounts(_)
SumCounts(rows) == IF rows = <<>> THEN 0 ELSE Head(rows).count + SumCounts(Tail(rows))

\* C4: in every committed state, a poll's total_votes is the number of its vote
\* rows, an option's vote_count is the number of vote rows naming it, and the
\* poll's option vote_counts add up to its total_votes.
CountersMatchVotes ==
  \A k \in PollIds :
    /\ polls[k].total = Cardinality({j \in 1..Len(votes) : votes[j].poll = k})
    /\ \A i \in 1..Len(options[k]) :
         options[k][i].count = Cardinality({j \in 1..Len(votes) : votes[j].opt = <<k, i - 1>>})
    /\ SumCounts(options[k]) = polls[k].total

\* A poll with two committed votes.
TwoVotesCounted == \E k \in PollIds : Len(votes) = 2 /\ polls[k].total = 2

RECURSIVE SumAcked(_)
SumAcked(S) == IF S = {} THEN 0
               ELSE LET o == CHOOSE x \in S : TRUE IN acked[o] + SumAcked(S \ {o})

\* C6: in every interleaving, a poll's total_votes is the number of CastVote
\* calls on it that returned success and an option's vote_count the number of
\* those that named it: no increment is lost or applied twice.
NoLostIncrement ==
  \A k \in PollIds :
    /\ polls[k].total = SumAcked({o \in OptIds : o[1] = k})
    /\ \A i \in 1..Len(options[k]) : options[k][i].count = acked[<<k, i - 1>>]

\* One of two overlapping votes of distinct voters on a poll has committed
\* while the other is inside its transaction.
OverlappingVoteCommitted ==
  /\ ret.args.op = "CastVote" /\ ret.res = Ok
  /\ \E q \in Procs :
       /\ pc[q] = "rv_insert"
       /\ args[q].poll = ret.args.poll
       /\ args[q].voter # ret.args.voter

\* ---------------------------------------------------------------------- C7
\* Process p issues a CastVote in this step: the call passes the lifecycle
\* checks or returns from them.
CastVoteIssued(p) ==
  /\ pc[p] = "idle"
  /\ pc'[p] = "cv_hasvoted" \/ (ret'.proc = p /\ ret'.args.op = "CastVote")

IssuedArgs(p) == IF ret'.proc = p THEN ret'.args ELSE args'[p]

\* Process p returns e in this step, making no further repository call.
Returns(p, e) == ret'.proc = p /\ ret'.res = e /\ pc'[p] = "idle"

PastExpiry(k) == polls[k].expires # NoExpiry /\ polls[k].expires < now

\* C7: a CastVote issued on a poll that DeletePoll has made inactive fails with
\* 'poll is not active', and one issued on a poll (not deleted) whose expiresAt
\* is in the past fails with 'poll has expired'; neither adds a vote row or
\* changes a counter.
ClosedPollRejectsVote ==
  [][\A p \in Procs :
       (CastVoteIssued(p) /\ nFaults' = nFaults) =>
          LET k == IssuedArgs(p).poll IN
          /\ (polls[k].exists /\ ~polls[k].active) =>
                Returns(p, ErrPollNotActive) /\ NoEffect
          /\ (polls[k].exists /\ polls[k].active /\ PastExpiry(k)) =>
                Returns(p, ErrPollExpired) /\ NoEffect
    ]_vars

\* A vote on a soft-deleted poll was turned away.
DeletedPollRejectedVote ==
  /\ ret.args.op = "CastVote"
  /\ ret.res = ErrPollNotActive
  /\ ~polls[ret.args.poll].active
  /\ votes = <<>>

\* ---------------------------------------------------------------------- C8
\* C8: every vote row names an option of its own poll; a CastVote(p, o, v) with
\* o not an option of p never succeeds, adds no vote row and changes no counter
\* of any poll, and its error is the invalid-option error whenever the call
\* gets to that check (p open when issued, v without a vote on p).
VotesNameOwnOptions ==
  [][/\ \A i \in 1..Len(votes') :
          /\ votes'[i].opt[1] = votes'[i].poll
          /\ votes'[i].opt[2] + 1 <= Len(options'[votes'[i].poll])
     /\ (CastVoteReturns /\ ~IsOptionOf(ret'.args.opt, ret'.args.poll)) =>
          /\ ret'.res # Ok
          /\ NoEffect
          /\ (IssuedOnOpenPoll /\ ~Voted(ret'.args.poll, ret'.args.voter)) =>
                ret'.res = ErrInvalidOption
    ]_vars

\* A vote on one poll naming an option of another existing poll was turned away.
ForeignOptionRejected ==
  /\ ret.res = ErrInvalidOption
  /\ ret.args.opt[1] # ret.args.poll
  /\ IsOptionOf(ret.args.opt, ret.args.opt[1])
  /\ polls[ret.args.poll].exists

\* ---------------------------------------------------------------------- C9
\* C9: CastVote checks poll-exists, poll-active, not-expired, has-not-voted and
\* option-belongs-to-poll in this order, and the first check that fails returns
\* its error with no later repository call: an inactive and expired poll gives
\* 'poll is not active', a voter who has voted gets the duplicate-vote error
\* also for an option that is not the poll's.
ChecksInOrder ==
  [][\A p \in Procs :
       nFaults' = nFaults =>
         /\ CastVoteIssued(p) =>
              LET k == IssuedArgs(p).poll IN
              IF ~polls[k].exists THEN Returns(p, ErrPollNotFound)
              ELSE IF ~polls[k].active THEN Returns(p, ErrPollNotActive)
              ELSE IF PastExpiry(k) THEN Returns(p, ErrPollExpired)
              ELSE pc'[p] = "cv_hasvoted"
         /\ (pc[p] = "cv_hasvoted" /\ pc'[p] # pc[p]) =>
              IF Voted(args[p].poll, args[p].voter) THEN Returns(p, ErrAlreadyVoted)
              ELSE pc'[p] = "cv_getoptions"
         /\ (pc[p] = "cv_getoptions" /\ pc'[p] # pc[p]) =>
              IF ~IsOptionOf(args[p].opt, args[p].poll) THEN Returns(p, ErrInvalidOption)
              ELSE pc'[p] = "rv_begin"
    ]_vars

\* A voter who had voted asked for an option that is not the poll's and got the
\* duplicate-vote error.
DuplicateBeforeInvalidOption ==
  /\ ret.res = ErrAlreadyVoted
  /\ ~IsOptionOf(ret.args.opt, ret.args.poll)

\* ---------------------------------------------------------------------- C10
\* Every committed poll row has all the option rows of its request, and no
\* option row is without its poll row.
StoredPollsComplete ==
  \A k \in PollIds :
    IF polls[k].exists THEN Len(options[k]) = requested[k] ELSE options[k] = <<>>

\* A GetPollResults that returned a poll returned all of its options.
ResultsComplete ==
  (ret.args.op = "GetPollResults" /\ ret.res = Ok) =>
     Len(ret.out.options) = requested[ret.args.poll]

\* A ListPolls that returned a poll returned it with all of its options.
ListedPollsComplete ==
  (ret.args.op = "ListPolls" /\ ret.res = Ok) =>
     \A i \in 1..Len(ret.out.polls) :
        Len(ret.out.polls[i].options) = requested[ret.out.polls[i].id]

\* C10: CreatePoll is all-or-nothing: a poll row exists only with all the
\* option rows of its request (a failed request leaves neither), and no
\* GetPollResults or ListPolls returns a poll with fewer than all its options.
CreateAllOrNothing == StoredPollsComplete /\ ResultsComplete /\ ListedPollsComplete

\* ---------------------------------------------------------------------- C11
\* C11: a successful CreatePoll of a request with N options returns and stores
\* exactly N options, the i-th with the i-th input text, position i - 1 and
\* vote_count 0 (so positions are 0..N-1 and unique), on an active poll with
\* total_votes 0.
CreatedAsRequested ==
  (ret.args.op = "CreatePoll" /\ ret.res = Ok) =>
     LET req == ret.args.req
         k == ret.out.id
     IN /\ Len(ret.out.options) = Len(req.options)
        /\ \A i \in 1..Len(req.options) :
             ret.out.options[i] = [text |-> req.options[i], position |-> i - 1, count |-> 0]
        /\ \A i, j \in 1..Len(ret.out.options) :
             i # j => ret.out.options[i].position # ret.out.options[j].position
        /\ ret.out.poll.exists /\ ret.out.poll.active /\ ret.out.poll.total = 0
        /\ ret.out.poll.expires = req.expires
        /\ k \in PollIds /\ polls[k] = ret.out.poll /\ options[k] = ret.out.options

\* A poll with the most options a request may have was created.
TenOptionsCreated ==
  /\ ret.args.op = "CreatePoll" /\ ret.res = Ok
  /\ Len(options[ret.out.id]) = MaxOptions
  /\ options[ret.out.id][MaxOptions].text = MaxOptionLen

\* ---------------------------------------------------------------------- C12
\* Process p issues a CreatePoll in this step: the call passes validation and
\* BeginTx, or returns.
CreatePollIssued(p) ==
  /\ pc[p] = "idle"
  /\ pc'[p] = "rc_insertpoll" \/ (ret'.proc = p /\ ret'.args.op = "CreatePoll")

CreateRequest(p) == IF ret'.proc = p THEN ret'.args.req ELSE args'[p].req

WithinBounds(req) ==
  /\ req.question >= MinQuestionLen /\ req.question <= MaxQuestionLen
  /\ Len(req.options) >= MinOptions /\ Len(req.options) <= MaxOptions
  /\ \A i \in 1..Len(req.options) :
       req.options[i] >= MinOptionLen /\ req.options[i] <= MaxOptionLen

\* C12: CreatePoll returns a validation error for a question shorter than 5 or
\* longer than 500, fewer than 2 or more than 10 options, or an option shorter
\* than 1 or longer than 200; a request without expiresAt with all of these
\* within bounds, the boundary values included, passes validation.
ValidationBounds ==
  [][\A p \in Procs :
       (CreatePollIssued(p) /\ nFaults' = nFaults) =>
          LET req == CreateRequest(p) IN
          /\ ~WithinBounds(req) =>
                /\ ret'.proc = p
                /\ ret'.res \in {ErrQuestionLen, ErrTooFewOptions, ErrTooManyOptions, ErrOptionLen}
          /\ (WithinBounds(req) /\ req.expires = NoExpiry) => pc'[p] = "rc_insertpoll"
    ]_vars

\* A request at the upper limit of every rule was accepted and stored.
UpperLimitsAccepted ==
  /\ ret.args.op = "CreatePoll" /\ ret.res = Ok
  /\ ret.args.req.question = MaxQuestionLen
  /\ Len(ret.args.req.options) = MaxOptions
  /\ ret.args.req.options[MaxOptions] = MaxOptionLen
  /\ polls[ret.out.id].exists

\* ---------------------------------------------------------------------- C13
\* C13: CreatePoll rejects every request whose expiresAt is not strictly after
\* the current time, an expiresAt equal to now as well as an earlier one, with
\* the expiration validation error (when its other fields are within bounds).
ExpiryStrictlyFuture ==
  [][\A p \in Procs :
       (CreatePollIssued(p) /\ nFaults' = nFaults) =>
          LET req == CreateRequest(p) IN
          (req.expires # NoExpiry /\ req.expires <= now) =>
             /\ ret'.proc = p
             /\ ret'.res \in {ErrQuestionLen, ErrTooFewOptions, ErrTooManyOptions,
                              ErrOptionLen, ErrExpiration}
             /\ WithinBounds(req) => ret'.res = ErrExpiration
    ]_vars

\* ---------------------------------------------------------------------- C14
\* C14: a CreatePoll whose request fails a validation rule returns a validation
\* error and no poll, without the repository being called (no transaction is
\* opened, no storage call made), and leaves the store as it was.
ValidationFailureChangesNothing ==
  [][\A p \in Procs :
       CreatePollIssued(p) =>
          LET req == CreateRequest(p) IN
          (~WithinBounds(req) \/ (req.expires # NoExpiry /\ req.expires < now)) =>
             /\ ret'.proc = p
             /\ ret'.res \in {ErrQuestionLen, ErrTooFewOptions, ErrTooManyOptions,
                              ErrOptionLen, ErrExpiration}
             /\ ret'.out = NoOut
             /\ pc'[p] = "idle" /\ tx' = tx /\ nFaults' = nFaults
             /\ Store' = Store /\ requested' = requested
    ]_vars

\* A request with a past expiresAt was rejected while a poll was in the store.
PastExpiryRejected ==
  /\ ret.res = ErrExpiration
  /\ ret.out = NoOut
  /\ \E k \in PollIds : polls[k].exists

\* ---------------------------------------------------------------------- C15
RECURSIVE SumSeq(_)
SumSeq(q) == IF q = <<>> THEN 0 ELSE Head(q) + SumSeq(Tail(q))

\* C15: in every GetPollResults result, a total of 0 comes with percentages
\* that are all 0; with a total above 0 each percentage is the option's
\* vote_count / total * 100 and the percentages add up to 100, within the
\* rounding of one quotient per option.
PercentagesSumTo100 ==
  (ret.args.op = "GetPollResults" /\ ret.res = Ok) =>
     LET r == ret.out
         n == Len(r.options)
     IN /\ Len(r.percentages) = n
        /\ r.total = 0 => \A i \in 1..n : r.percentages[i] = 0
        /\ r.total > 0 =>
             /\ \A i \in 1..n :
                  /\ r.percentages[i] * r.total <= r.options[i].count * 100 * PctScale
                  /\ r.options[i].count * 100 * PctScale < (r.percentages[i] + 100) * r.total
             /\ SumSeq(r.percentages) <= 100 * PctScale
             /\ SumSeq(r.percentages) >= 100 * PctScale - 100 * n

\* ---------------------------------------------------------------------- C16
\* C16: vote rows stay, and a successful CastVote(p, o, v) leaves the row of v
\* on p with o; a GetPollResults(p, v) whose lookup runs returns has_voted =
\* true and voted_option = o when v has a vote on p, and has_voted = false and
\* no voted option when v has none, whatever other voters did on p or elsewhere.
ReadYourOwnVote ==
  [][/\ Len(votes') >= Len(votes) /\ SubSeq(votes', 1, Len(votes)) = votes
     /\ (ret'.args.op = "CastVote" /\ ret'.res = Ok) =>
           votes'[Len(votes')] = [poll |-> ret'.args.poll, opt |-> ret'.args.opt,
                                  voter |-> ret'.args.voter]
     /\ (ret'.args.op = "GetPollResults" /\ ret'.res = Ok /\ nFaults' = nFaults) =>
           LET k == ret'.args.poll
               v == ret'.args.voter
           IN IF Voted(k, v)
              THEN /\ ret'.out.hasVoted
                   /\ \E i \in 1..Len(votes) :
                        /\ votes[i].poll = k /\ votes[i].voter = v
                        /\ ret'.out.votedOption = votes[i].opt
              ELSE ~ret'.out.hasVoted /\ ret'.out.votedOption = NoOut.votedOption
    ]_vars

\* A voter read back the own vote, the second on the poll and for another
\* option than the first.
OwnVoteReadBack ==
  /\ ret.args.op = "GetPollResults" /\ ret.res = Ok
  /\ ret.out.hasVoted
  /\ Len(votes) = 2
  /\ votes[2].voter = ret.args.voter /\ votes[2].opt = ret.out.votedOption
  /\ votes[1].poll = ret.args.poll /\ votes[1].opt # ret.out.votedOption

\* ---------------------------------------------------------------------- C17
GetPollResultsIssued(p) ==
  /\ pc[p] = "idle"
  /\ pc'[p] = "gr_options" \/ (ret'.proc = p /\ ret'.args.op = "GetPollResults")

\* C17: GetPollResults of a poll that does not exist fails with 'poll not
\* found'; when the HasVoted lookup fails the call still succeeds, with the
\* poll, its options with their vote counts and percentages as read, has_voted
\* = false and no voted option.
LookupFailureTolerated ==
  [][\A p \in Procs :
       /\ (GetPollResultsIssued(p) /\ nFaults' = nFaults
             /\ ~polls[IssuedArgs(p).poll].exists) => Returns(p, ErrPollNotFound)
       /\ (pc[p] = "gr_hasvoted" /\ pc'[p] # pc[p] /\ nFaults' # nFaults) =>
            /\ Returns(p, Ok)
            /\ ret'.out.poll = out[p].poll /\ ret'.out.total = out[p].poll.total
            /\ ret'.out.options = out[p].options
            /\ Len(ret'.out.percentages) = Len(out[p].options)
            /\ ~ret'.out.hasVoted /\ ret'.out.votedOption = NoOut.votedOption
    ]_vars

\* A voter who had voted got a result, without the vote, from a call whose
\* lookup failed.
ResultDespiteFailedLookup ==
  /\ ret.args.op = "GetPollResults" /\ ret.res = Ok
  /\ Voted(ret.args.poll, ret.args.voter)
  /\ ~ret.out.hasVoted
  /\ ret.out.total = 1 /\ Len(ret.out.options) = MaxOpts

\* ---------------------------------------------------------------------- C18
\* The polls a listing with the filter activeOnly is about.
Matching(activeOnly) ==
  {k \in PollIds :
     /\ polls[k].exists
     /\ activeOnly => (polls[k].active /\ (polls[k].expires = NoExpiry \/ polls[k].expires > now))}

Newer(k, S)     == {j \in S : polls[j].created > polls[k].created}
NotOlder(k, S)  == {j \in S : polls[j].created >= polls[k].created}
Smaller(a, b)   == IF a < b THEN a ELSE b

\* The repository query of ListPolls ran in this step, for process p.
ListPollsQueried(p) == pc[p] = "idle" /\ pc'[p] = "lp_count"

\* C18: the page of ListPolls(limit, offset, activeOnly), for a limit in 1..100
\* and an offset >= 0, holds the polls ranked offset+1 .. offset+limit among the
\* matching polls, newest first (fewer only when they run out), each with its
\* row and all of its options in ascending position.
PageCountsPolls ==
  [][\A p \in Procs :
       (ListPollsQueried(p) /\ args'[p].limit \in 1..MaxLimit /\ args'[p].offset >= 0) =>
          LET page   == out'[p].polls
              limit  == args'[p].limit
              offset == args'[p].offset
              M      == Matching(args'[p].activeOnly)
              rest   == IF Cardinality(M) > offset THEN Cardinality(M) - offset ELSE 0
          IN /\ Len(page) = Smaller(limit, rest)
             /\ \A i \in 1..Len(page) :
                  /\ page[i].id \in M
                  /\ \A j \in 1..Len(page) : page[i].id = page[j].id => i = j
                  /\ Cardinality(Newer(page[i].id, M)) <= offset + i - 1
                  /\ Cardinality(NotOlder(page[i].id, M)) >= offset + i
                  /\ page[i].row = polls[page[i].id]
                  /\ page[i].options = options[page[i].id]
                  /\ \A a, b \in 1..Len(page[i].options) :
                       a < b => page[i].options[a].position < page[i].options[b].position
    ]_vars

\* ---------------------------------------------------------------------- C19
\* C19: with activeOnly = true every listed poll is active and has no expiry or
\* an expiry in the future, and the total counts exactly those; with activeOnly
\* = false every existing poll matches, inactive and expired ones too: the
\* listing from offset 0 starts with a newest existing poll, whatever its
\* state, and the total counts all existing polls.
ActiveOnlyFilters ==
  [][\A p \in Procs :
       /\ ListPollsQueried(p) =>
            LET page == out'[p].polls
                all  == {k \in PollIds : polls[k].exists}
            IN IF args'[p].activeOnly
               THEN \A i \in 1..Len(page) :
                      /\ polls[page[i].id].exists /\ polls[page[i].id].active
                      /\ \/ polls[page[i].id].expires = NoExpiry
                         \/ polls[page[i].id].expires > now
               ELSE /\ \A i \in 1..Len(page) : page[i].id \in all
                    /\ (all # {} /\ out'[p].offset = 0) =>
                          /\ page # <<>>
                          /\ Newer(page[1].id, all) = {}
       /\ (pc[p] = "lp_count" /\ pc'[p] # pc[p] /\ nFaults' = nFaults) =>
            /\ Returns(p, Ok)
            /\ ret'.out.total = Cardinality(Matching(args[p].activeOnly))
    ]_vars

\* An unfiltered listing returned a soft-deleted poll, and counted it.
InactivePollListed ==
  /\ ret.args.op = "ListPolls" /\ ret.res = Ok
  /\ ~ret.args.activeOnly
  /\ nFaults = 0
  /\ ret.out.total = 1
  /\ \E i \in 1..Len(ret.out.polls) : ~ret.out.polls[i].row.active

\* ---------------------------------------------------------------------- C20
\* C20: the repository is queried with limit 20 for every requested limit <= 0
\* and with offset 0 for every requested offset < 0; a limit in 1..100 and an
\* offset >= 0 are passed unchanged.
LimitAndOffsetClamped ==
  [][\A p \in Procs :
       ListPollsQueried(p) =>
          /\ args'[p].limit <= 0 => out'[p].limit = DefaultLimit
          /\ args'[p].limit \in 1..MaxLimit => out'[p].limit = args'[p].limit
          /\ args'[p].offset < 0 => out'[p].offset = 0
          /\ args'[p].offset >= 0 => out'[p].offset = args'[p].offset
    ]_vars

\* A listing asked for with limit 0 and offset -1 was queried with 20 and 0,
\* and returned the poll there is.
DefaultsApplied ==
  /\ ret.args.op = "ListPolls" /\ ret.res = Ok
  /\ ret.args.limit = 0 /\ ret.args.offset = -1
  /\ ret.out.limit = DefaultLimit /\ ret.out.offset = 0
  /\ Len(ret.out.polls) = 1

\* ---------------------------------------------------------------------- C21
\* C21: for every requested limit greater than 100 the repository is queried
\* with limit 100, and no query asks for more than 100 items.
OversizedLimitCapped ==
  [][\A p \in Procs :
       ListPollsQueried(p) =>
          /\ out'[p].limit <= MaxLimit
          /\ args'[p].limit > MaxLimit => out'[p].limit = MaxLimit
    ]_vars

\* ---------------------------------------------------------------------- C22
\* C22: ListPolls returns an error and no polls exactly when its page query
\* fails; when the total-count query fails the call succeeds with the page it
\* fetched and total = 0.
CountFailureTolerated ==
  [][\A p \in Procs :
       /\ (pc[p] = "idle" /\ ret'.proc = p /\ ret'.args.op = "ListPolls") =>
            /\ nFaults' = nFaults + 1
            /\ ret'.res = ErrListPolls
            /\ ret'.out.polls = <<>> /\ ret'.out.total = 0
       /\ ListPollsQueried(p) => nFaults' = nFaults
       /\ (pc[p] = "lp_count" /\ pc'[p] # pc[p]) =>
            /\ Returns(p, Ok)
            /\ ret'.out.polls = out[p].polls
            /\ nFaults' # nFaults => ret'.out.total = 0
    ]_vars

\* An unfiltered listing returned a poll and, its count having failed, total 0.
PageWithoutTotal ==
  /\ ret.args.op = "ListPolls" /\ ret.res = Ok
  /\ ~ret.args.activeOnly
  /\ Len(ret.out.polls) >= 1
  /\ ret.out.total = 0
  /\ nFaults = 1

\* ---------------------------------------------------------------------- C23
\* C23: a DeletePoll(id) that no storage failure hits succeeds when a poll with
\* that id exists, active or not, and leaves it inactive; it returns the
\* not-found error and changes nothing when no poll has that id; in every case
\* nothing but that poll's flag changes: no other poll, counter, option or vote.
DeleteFlipsOnlyTheFlag ==
  [][\A p \in Procs :
       (pc[p] = "idle" /\ ret'.proc = p /\ ret'.args.op = "DeletePoll") =>
          LET k == ret'.args.poll IN
          /\ nFaults' = nFaults =>
               IF polls[k].exists
               THEN ret'.res = Ok /\ ~polls'[k].active
               ELSE ret'.res = ErrDeleteNotFound /\ polls' = polls
          /\ polls' = [polls EXCEPT ![k].active = polls'[k].active]
          /\ options' = options
          /\ votes' = votes
    ]_vars

\* A poll holding a vote was deleted: inactive, its vote and counters kept.
VotedPollDeleted ==
  /\ ret.args.op = "DeletePoll" /\ ret.res = Ok
  /\ ~polls[ret.args.poll].active
  /\ polls[ret.args.poll].total = 1
  /\ VoteRows(ret.args.poll) # {}

\* ---------------------------------------------------------------------- C24
\* C24: in every step of every history a poll row that exists keeps existing,
\* an inactive poll stays inactive, every option row stays (with its text and
\* position) and every vote row stays.
SoftDeleteOneWay ==
  [][/\ \A k \in PollIds :
          /\ polls[k].exists => polls'[k].exists
          /\ (polls[k].exists /\ ~polls[k].active) => ~polls'[k].active
          /\ Len(options'[k]) >= Len(options[k])
          /\ \A i \in 1..Len(options[k]) :
               /\ options'[k][i].text = options[k][i].text
               /\ options'[k][i].position = options[k][i].position
     /\ Len(votes') >= Len(votes)
     /\ SubSeq(votes', 1, Len(votes)) = votes
    ]_vars

\* After its soft delete a poll was read back: its row and options are there,
\* inactive.
DeletedPollStillStored ==
  /\ ret.args.op = "GetPollResults" /\ ret.res = Ok
  /\ ret.out.poll.exists /\ ~ret.out.poll.active
  /\ Len(ret.out.options) = MaxOpts
  /\ ~polls[ret.args.poll].active

\* ---------------------------------------------------------------------- C25
\* Failures the service produces itself, and failures that come from storage.
ClientFailures ==
  {ErrQuestionLen, ErrTooFewOptions, ErrTooManyOptions, ErrOptionLen, ErrExpiration,
   ErrPollNotFound, ErrPollNotActive, ErrPollExpired, ErrAlreadyVoted, ErrInvalidOption,
   ErrDeleteNotFound}
StorageFailures ==
  {ErrGetPoll, ErrCheckVote, ErrGetOptions, ErrGetResultsOptions,
   ErrCastBegin, ErrCastInsert, ErrCastUpdate, ErrCastCommit,
   ErrCreateBegin, ErrCreatePoll, ErrCreateOption, ErrCreateCommit, ErrDelete}
BoundaryOps == {"CreatePoll", "CastVote", "GetPollResults", "DeletePoll"}

\* C25: for create, vote, get and delete, a validation or lifecycle failure is
\* answered with a 4xx status and a failure of storage with a 5xx status.
StatusByOrigin ==
  ret.args.op \in BoundaryOps =>
     /\ ret.res \in ClientFailures => ret.status \in 400..499
     /\ ret.res \in StorageFailures => ret.status \in 500..599

\* ---------------------------------------------------------------------- C26
\* The retry count in force: MaxRetries, or 5 when MaxRetries is 0.
RetriesInForce == IF conn.cfgRetries = 0 THEN DefaultMaxRetries ELSE conn.cfgRetries

ConnReturned == conn.pc = "done"

\* C26: NewConnection terminates, with at most maxRetries pings (none when
\* maxRetries is negative); it returns the connection, with the global DB set,
\* exactly when its last ping succeeded, and an error otherwise: after
\* maxRetries failed pings the handle is closed and the global DB unset.
ConnectionBounded ==
  /\ conn.pings >= 0
  /\ conn.pings <= (IF RetriesInForce > 0 THEN RetriesInForce ELSE 0)
  /\ conn.DB => (ConnReturned /\ conn.result = "ok")
  /\ ConnReturned =>
       /\ conn.result \in {"ok", "error"}
       /\ conn.result = "ok" =>
            /\ conn.DB /\ conn.handle = "open"
            /\ conn.pings = conn.attempt
            /\ Len(conn.delays) = conn.pings - 1
       /\ conn.result = "error" =>
            /\ ~conn.DB /\ conn.handle # "open"
            /\ conn.handle = "closed" =>
                 conn.pings = (IF RetriesInForce > 0 THEN RetriesInForce ELSE 0)

NewConnectionTerminates == []ConnectionBounded /\ <>ConnReturned

\* With MaxRetries 0 the fifth ping failed: an error, the handle closed.
FiveAttemptsFailed ==
  /\ ConnReturned /\ conn.cfgRetries = 0
  /\ conn.pings = DefaultMaxRetries
  /\ conn.result = "error" /\ conn.handle = "closed" /\ ~conn.DB

\* ---------------------------------------------------------------------- C27
\* C27: the delay after failed attempt 1 is RetryDelay (2 when it is 0) and
\* each later delay is double the one before.
DelaysDouble ==
  \A i \in 1..Len(conn.delays) :
     conn.delays[i] = IF i = 1
                      THEN (IF conn.cfgDelay = 0 THEN DefaultRetryDelay ELSE conn.cfgDelay)
                      ELSE 2 * conn.delays[i - 1]

\* ---------------------------------------------------------------------- C28
\* C28: once a poll is inactive (its DeletePoll has committed) no step commits
\* a vote on it or changes its total or the vote_count of any of its options.
NoVoteAfterDelete ==
  [][\A k \in PollIds :
       (polls[k].exists /\ ~polls[k].active) =>
          /\ {i \in 1..Len(votes') : votes'[i].poll = k} = VoteRows(k)
          /\ polls'[k].total = polls[k].total
          /\ Len(options'[k]) = Len(options[k])
          /\ \A i \in 1..Len(options[k]) : options'[k][i].count = options[k][i].count
    ]_vars

\* ---------------------------------------------------------------------- C29
\* C29: in every result GetPollResults returns, the total votes equal the sum
\* of the vote_counts of the options returned.
ResultsAreSnapshot ==
  (ret.args.op = "GetPollResults" /\ ret.res = Ok) =>
     ret.out.total = SumSeq([i \in 1..Len(ret.out.options) |-> ret.out.options[i].count])

\* ---------------------------------------------------------------------- C30
\* C30: at every instant a stored poll passes the lifecycle checks of CastVote
\* (a vote issued on it then is not rejected by them) exactly when the
\* active-only filter of ListPolls and GetTotalPollsCount selects it.
LifecycleAgreesWithFilter ==
  [][\A p \in Procs :
       (CastVoteIssued(p) /\ nFaults' = nFaults /\ polls[IssuedArgs(p).poll].exists) =>
          LET k == IssuedArgs(p).poll
              accepted == pc'[p] # "idle"
          IN /\ accepted <=> ActiveFilter(k, TRUE)
             /\ accepted => GetTotalPollsCount(TRUE) >= 1
    ]_vars

====
